---- MODULE Spec2Model ----
(***************************************************************************)
(* Model of the keller-xline master-side driver: the CRC engine, the      *)
(* response frame codec (base.rs) and the transaction engine with its     *)
(* command layer (lib.rs).                                                 *)
(*                                                                         *)
(* Build modelled: feature "embedded" without "std".  The "std" branches   *)
(* of lib.rs cannot be built (Bytes is defined twice at lib.rs:9/13,       *)
(* parse_err_to_proto at lib.rs:77 is not defined anywhere), so the        *)
(* cfg(all(not(std), embedded)) branches are the program.                  *)
(*                                                                         *)
(* Values: a u8 is a number 0..255, a u16 a number 0..65535, a byte        *)
(* buffer a sequence of u8.  Option<T> is a sequence of length 0 (None)    *)
(* or 1 (Some).  An f32 is the record of its sign, biased exponent and     *)
(* fraction fields, so that to_bits/from_bits are real conversions; a u32  *)
(* is the record of its two 16-bit halves.                                 *)
(***************************************************************************)
EXTENDS Integers, Sequences, FiniteSets, TLC

VARIABLES
    \* ---- driver session (lib.rs:17-21) ----
    address,        \* KellerXLine.address
    timeout,        \* KellerXLine.timeout, in milliseconds
    \* ---- one command call in progress ----
    pc,             \* "idle" | "clear_rx" | "write_all" | "read_exact"
    cmd,            \* name of the command that was called last
    args,           \* its arguments
    req,            \* Option<XLineFrame>: the request frame built by the command
    expected_len,   \* the reply length handed to transaction()
    ops,            \* transport operations of the current call, in order
    wire,           \* the bytes handed to write_all
    sent,           \* the bytes the device put on the line in answer
    raw,            \* the bytes read_exact delivered (raw[..expected_len])
    txn,            \* result of transaction(): Option<Result<XLineResponseFrame, ProtocolError>>
    assigned,       \* Option<u8>: the address, other than the session's, that the
                    \* last successful write_address gave the device
    outcome,        \* result of the command: Option<"Ok" value | "Err" error | "Panic">
    \* ---- codec harness (pure functions of base.rs) ----
    buf,            \* the buffer under test
    sealed,         \* TRUE once crc16_hi_lo's bytes have been appended to buf
    dec,            \* Option<Result<XLineResponseFrame, XLineFrameError>> for buf
    flip            \* Option<<<index, old, new>>>: the byte replaced in a valid frame

vars == <<address, timeout, pc, cmd, args, req, expected_len, ops, wire, sent, raw,
          txn, outcome, assigned, buf, sealed, dec, flip>>

sessionVars == <<address, timeout>>
callVars == <<pc, cmd, args, req, expected_len, ops, wire, sent, raw, txn, outcome,
              assigned>>
codecVars == <<buf, sealed, dec, flip>>

None == <<>>
Some(x) == <<x>>
IsSome(o) == Len(o) = 1
Get(o) == o[1]

U8 == 0..255

(***************************************************************************)
(* Integer helpers: u16 bitwise xor, slices.                               *)
(***************************************************************************)
\* bit i of x
Bit(x, i) == (x \div (2 ^ i)) % 2

\* bit i of a ^ b, in place
XorBit(a, b, i) == ((Bit(a, i) + Bit(b, i)) % 2) * (2 ^ i)

\* `^` on two 4-bit operands a, b, indexed by 16 * a + b
XorNibble ==
    [k \in 0..255 |->
        XorBit(k \div 16, k % 16, 0) + XorBit(k \div 16, k % 16, 1)
        + XorBit(k \div 16, k % 16, 2) + XorBit(k \div 16, k % 16, 3)]

\* nibble i of x
Nibble(x, i) == (x \div (16 ^ i)) % 16

\* nibble i of a ^ b, in place
XorAt(a, b, i) == XorNibble[16 * Nibble(a, i) + Nibble(b, i)] * (16 ^ i)

\* `^` on u16
Xor16(a, b) == XorAt(a, b, 0) + XorAt(a, b, 1) + XorAt(a, b, 2) + XorAt(a, b, 3)

\* `^` on u32
Xor32(a, b) ==
    XorAt(a, b, 0) + XorAt(a, b, 1) + XorAt(a, b, 2) + XorAt(a, b, 3)
    + XorAt(a, b, 4) + XorAt(a, b, 5) + XorAt(a, b, 6) + XorAt(a, b, 7)

\* buf[from..to) with 0-based Rust indices
Slice(s, from, to) == [i \in 1..(to - from) |-> s[from + i]]

(***************************************************************************)
(* base.rs:412-425  crc16                                                  *)
(***************************************************************************)
RECURSIVE crc16_bits(_, _)
crc16_bits(crc, k) ==
    IF k = 0 THEN crc
    ELSE IF (crc % 2) # 0
         THEN crc16_bits(Xor16(crc \div 2, 40961), k - 1)
         ELSE crc16_bits(crc \div 2, k - 1)

RECURSIVE crc16_from(_, _, _)
crc16_from(data, i, crc) ==
    IF i > Len(data) THEN crc
    ELSE crc16_from(data, i + 1, crc16_bits(Xor16(crc, data[i]), 8))

crc16(data) == crc16_from(data, 1, 65535)

(***************************************************************************)
(* base.rs:298-312  crc16_hi_lo                                            *)
(***************************************************************************)
RECURSIVE crc16_hi_lo_bits(_, _, _)
crc16_hi_lo_bits(crc, poly, k) ==
    IF k = 0 THEN crc
    ELSE IF (crc % 2) # 0
         THEN crc16_hi_lo_bits(Xor16(crc \div 2, poly), poly, k - 1)
         ELSE crc16_hi_lo_bits(crc \div 2, poly, k - 1)

RECURSIVE crc16_hi_lo_from(_, _, _, _)
crc16_hi_lo_from(data, i, crc, poly) ==
    IF i > Len(data) THEN crc
    ELSE crc16_hi_lo_from(data, i + 1,
                          crc16_hi_lo_bits(Xor16(crc, data[i]), poly, 8),
                          poly)

crc16_hi_lo_swapped(data) ==
    LET crc == crc16_hi_lo_from(data, 1, 65535, 40961)
    IN <<crc % 256, (crc \div 256) % 256>>

\* returns <<hi, lo>>
crc16_hi_lo(data) ==
    LET polynom == 40961
        crc == crc16_hi_lo_from(data, 1, 65535, polynom)
    IN <<(crc \div 256) % 256, crc % 256>>

(***************************************************************************)
(* base.rs:249-269  KellerErrors and From<u8>                              *)
(***************************************************************************)
KellerError(name, code) == [name |-> name, code |-> code]

KellerErrors_from(data) ==
    CASE data = 1 -> KellerError("NonImplementedFunction", 1)
      [] data = 2 -> KellerError("InvalidAddress", 2)
      [] data = 3 -> KellerError("IncorrectMessageLength", 3)
      [] data = 4 -> KellerError("ErrorSavingValue", 4)
      [] data = 32 -> KellerError("DeviceNotInitialized", 32)
      [] OTHER -> KellerError("Other", data)

(***************************************************************************)
(* base.rs:323-330  XLineFrameError                                        *)
(***************************************************************************)
TooShort == [crc |-> None, kind |-> "TooShort", device |-> None]
DeviceError(e) == [crc |-> None, kind |-> "DeviceError", device |-> Some(e)]
BadCrc(expected, got) ==
    [crc |-> Some(<<expected, got>>), kind |-> "BadCrc", device |-> None]

Ok(v) == [ok |-> TRUE, value |-> Some(v), err |-> None]
Err(e) == [ok |-> FALSE, value |-> None, err |-> Some(e)]

(***************************************************************************)
(* base.rs:334-339  XLineResponseFrame                                     *)
(***************************************************************************)
XLineResponseFrame(address_, function_code, payload, crc) ==
    [address |-> address_, crc |-> crc,
     function_code |-> function_code, payload |-> payload]

\* u16::from_be_bytes
u16_from_be_bytes(hi, lo) == hi * 256 + lo

(***************************************************************************)
(* base.rs:342-380  XLineResponseFrame::from_buffer                        *)
(***************************************************************************)
from_buffer_min4(b) ==
    IF Len(b) < 4 THEN Err(TooShort)
    ELSE IF b[2] > 127 THEN Err(DeviceError(KellerErrors_from(b[3])))
    ELSE LET data_len == Len(b) - 2
             got_crc == u16_from_be_bytes(b[data_len + 1], b[data_len + 2])
             expected_crc == crc16(Slice(b, 0, data_len))
         IN IF got_crc # expected_crc THEN Err(BadCrc(expected_crc, got_crc))
            ELSE Ok(XLineResponseFrame(b[1], b[2], Slice(b, 2, data_len), got_crc))

from_buffer_crc_first(b) ==
    IF Len(b) < 5 THEN Err(TooShort)
    ELSE LET data_len == Len(b) - 2
             got_crc == u16_from_be_bytes(b[data_len + 1], b[data_len + 2])
             expected_crc == crc16(Slice(b, 0, data_len))
         IN IF got_crc # expected_crc THEN Err(BadCrc(expected_crc, got_crc))
            ELSE IF b[2] > 127 THEN Err(DeviceError(KellerErrors_from(b[3])))
            ELSE Ok(XLineResponseFrame(b[1], b[2], Slice(b, 2, data_len), got_crc))

from_buffer_crc_low_byte(b) ==
    IF Len(b) < 5 THEN Err(TooShort)
    ELSE IF b[2] > 127 THEN Err(DeviceError(KellerErrors_from(b[3])))
    ELSE LET data_len == Len(b) - 2
             got_crc == u16_from_be_bytes(b[data_len + 1], b[data_len + 2])
             expected_crc == crc16(Slice(b, 0, data_len))
         IN IF (got_crc % 256) # (expected_crc % 256)
            THEN Err(BadCrc(expected_crc, got_crc))
            ELSE Ok(XLineResponseFrame(b[1], b[2], Slice(b, 2, data_len), got_crc))

from_buffer(b) ==
    IF Len(b) < 5 THEN Err(TooShort)
    ELSE LET addr == b[1]
             func == b[2]
         IN IF func > 127 THEN Err(DeviceError(KellerErrors_from(b[3])))
            ELSE LET data_len == Len(b) - 2
                     got_crc == u16_from_be_bytes(b[data_len + 1], b[data_len + 2])
                     expected_crc == crc16(Slice(b, 0, data_len))
                 IN IF got_crc # expected_crc
                    THEN Err(BadCrc(expected_crc, got_crc))
                    ELSE Ok(XLineResponseFrame(addr, func,
                                               Slice(b, 2, data_len), got_crc))

(***************************************************************************)
(* base.rs:162-191  FunctionCodes and response_len                         *)
(***************************************************************************)
ReadCoefficients == 30
WriteCoefficients == 31
ReadConfigurations == 32
WriteConfiguration == 33
InitializeAndRealese == 48
WriteAndReadNewDeviceAddress == 66
ReadSerialNumber == 67
ReadChannelValueFloat == 73
ReadChannelValueInteger == 74
ZeroCommand == 95

FunctionCodes ==
    {ReadCoefficients, WriteCoefficients, ReadConfigurations, WriteConfiguration,
     InitializeAndRealese, WriteAndReadNewDeviceAddress, ReadSerialNumber,
     ReadChannelValueFloat, ReadChannelValueInteger, ZeroCommand}

\* a table in which the float channel reply is as long as a coefficient reply
response_len_channel_as_coefficient(function_code) ==
    CASE function_code \in {WriteCoefficients, WriteConfiguration,
                            WriteAndReadNewDeviceAddress, ZeroCommand} -> 5
      [] function_code = InitializeAndRealese -> 10
      [] OTHER -> 8

response_len(function_code) ==
    CASE function_code = ReadCoefficients -> 8
      [] function_code = WriteCoefficients -> 5
      [] function_code = ReadConfigurations -> 8
      [] function_code = WriteConfiguration -> 5
      [] function_code = InitializeAndRealese -> 10
      [] function_code = WriteAndReadNewDeviceAddress -> 5
      [] function_code = ReadSerialNumber -> 8
      [] function_code = ReadChannelValueFloat -> 9
      [] function_code = ReadChannelValueInteger -> 9
      [] function_code = ZeroCommand -> 5

(***************************************************************************)
(* Identifier enumerations (base.rs:12-89, 195-244): the members the       *)
(* commands are called with here.                                          *)
(***************************************************************************)
PressureOffsetP1 == 64
GainFactorP1 == 65
DeviceAddress == 13
P1 == 1
SetZeroP1 == 0

(***************************************************************************)
(* f32: sign, biased exponent and fraction fields; to_bits / from_bits and *)
(* the big-endian byte conversions (base.rs:395-401, lib.rs:121).          *)
(***************************************************************************)
F32(sign, exponent, fraction) ==
    [sign |-> sign, exponent |-> exponent, fraction |-> fraction]

\* 1.0 = +1.0 * 2^(127 - 127)
F32_ONE == F32(0, 127, 0)
\* -2.5 = -1.25 * 2^(128 - 127)
F32_MINUS_2_5 == F32(1, 128, 2097152)

\* a u32 as its two 16-bit halves
U32(hi, lo) == [hi |-> hi, lo |-> lo]

\* a u32 computed without overflow, below 2^31
u32_of(n) == U32(n \div 65536, n % 65536)

\* f32::to_bits: sign << 31 | exponent << 23 | fraction
f32_to_bits(v) ==
    U32(v.sign * 32768 + v.exponent * 128 + v.fraction \div 65536,
        v.fraction % 65536)

\* f32::from_bits
f32_from_bits(bits) ==
    F32(bits.hi \div 32768, (bits.hi \div 128) % 256,
        (bits.hi % 128) * 65536 + bits.lo)

\* u32::to_be_bytes
u32_to_be_bytes(x) ==
    <<x.hi \div 256, x.hi % 256, x.lo \div 256, x.lo % 256>>

u32_from_le_bytes(arr) == U32(arr[4] * 256 + arr[3], arr[2] * 256 + arr[1])

\* u32::from_be_bytes
u32_from_be_bytes(arr) == U32(arr[1] * 256 + arr[2], arr[3] * 256 + arr[4])

f32_to_le_bytes(value) ==
    LET be == u32_to_be_bytes(f32_to_bits(value))
    IN <<be[4], be[3], be[2], be[1]>>

\* f32::to_be_bytes
f32_to_be_bytes(value) == u32_to_be_bytes(f32_to_bits(value))

\* base.rs:395-401: Option<f32>
f32_from_be_bytes(b) ==
    IF Len(b) # 4 THEN None
    ELSE LET arr == <<b[1], b[2], b[3], b[4]>>
         IN Some(f32_from_bits(u32_from_be_bytes(arr)))

(***************************************************************************)
(* Typed command values.                                                   *)
(***************************************************************************)
UnitVal == <<"unit", 0>>
U8Val(v) == <<"u8", v>>
U32Val(v) == <<"u32", v>>
F32Val(v) == <<"f32", v>>

\* a panic (unwrap on None, index out of bounds): neither Ok nor Err
Panic == [ok |-> FALSE, value |-> None, err |-> None]
IsPanic(r) == ~r.ok /\ r.err = None

(***************************************************************************)
(* base.rs:283-296  ProtocolError and From<E>                              *)
(***************************************************************************)
Transport(e) == [kind |-> "Transport", transport |-> Some(e), frame |-> None]
FrameError(e) == [kind |-> "FrameError", transport |-> None, frame |-> Some(e)]
WrongAddress == [kind |-> "WrongAddress", transport |-> None, frame |-> None]
NonMatchingFunctionCode ==
    [kind |-> "NonMatchingFunctionCode", transport |-> None, frame |-> None]

\* a conversion that keeps the category and loses the transport's error
ProtocolError_from_io(error) == Transport("Io")

\* a conversion into the Timeout category (base.rs:285)
ProtocolError_from_as_timeout(error) ==
    [kind |-> "Timeout", transport |-> None, frame |-> None]

\* impl From<E> for ProtocolError<E>
ProtocolError_from(error) == Transport(error)

(***************************************************************************)
(* base.rs:314-318  XLineFrame                                             *)
(***************************************************************************)
XLineFrame(address_, function_code, data) ==
    [address |-> address_, data |-> data, function_code |-> function_code]

\* lib.rs:15
TRANSPARENT_ADDRESS == 250

(***************************************************************************)
(* base.rs:386-392  data_as_u8 / data_as_f32: Ok(value), or Panic          *)
(***************************************************************************)
data_as_u8(resp) ==
    IF Len(resp.payload) < 1 THEN Panic ELSE Ok(U8Val(resp.payload[1]))

data_as_f32(resp) ==
    LET r == f32_from_be_bytes(resp.payload)
    IN IF IsSome(r) THEN Ok(F32Val(Get(r))) ELSE Panic

(***************************************************************************)
(* lib.rs:44-54  send_frame: the bytes handed to write_all                 *)
(***************************************************************************)
send_frame_out_crc_of_header(self_address, frame) ==
    LET hl == crc16_hi_lo(<<self_address, frame.function_code>>)
    IN Append(Append(<<self_address, frame.function_code>> \o frame.data,
                     hl[1]), hl[2])

send_frame_out(self_address, frame) ==
    LET v == <<self_address, frame.function_code>> \o frame.data
        hl == crc16_hi_lo(v)
    IN Append(Append(v, hl[1]), hl[2])

(***************************************************************************)
(* lib.rs:76-81  read_response after read_exact succeeded                  *)
(***************************************************************************)
read_response_parse(raw_, expected_len_) ==
    LET parsed == from_buffer(Slice(raw_, 0, expected_len_))
    IN IF parsed.ok THEN parsed ELSE Err(FrameError(Get(parsed.err)))

(***************************************************************************)
(* lib.rs:90-98  transaction after send_frame succeeded and read_exact     *)
(* delivered raw_                                                          *)
(***************************************************************************)
transaction_no_echo_check(rq, raw_, expected_reply_len) ==
    LET r == read_response_parse(raw_, expected_reply_len)
    IN IF ~r.ok THEN r
       ELSE IF rq.address # TRANSPARENT_ADDRESS /\ Get(r.value).address # rq.address
            THEN Err(WrongAddress)
       ELSE r

transaction_no_address_check(rq, raw_, expected_reply_len) ==
    LET r == read_response_parse(raw_, expected_reply_len)
    IN IF ~r.ok THEN r
       ELSE IF Get(r.value).function_code # rq.function_code
            THEN Err(NonMatchingFunctionCode)
       ELSE r

transaction_no_transparent(rq, raw_, expected_reply_len) ==
    LET r == read_response_parse(raw_, expected_reply_len)
    IN IF ~r.ok THEN r
       ELSE IF Get(r.value).function_code # rq.function_code
            THEN Err(NonMatchingFunctionCode)
       ELSE IF Get(r.value).address # rq.address
            THEN Err(WrongAddress)
       ELSE r

\* the two checks of lib.rs:91-96 in the other order
transaction_address_first(rq, raw_, expected_reply_len) ==
    LET r == read_response_parse(raw_, expected_reply_len)
    IN IF ~r.ok THEN r
       ELSE LET resp == Get(r.value)
            IN IF rq.address # TRANSPARENT_ADDRESS /\ resp.address # rq.address
               THEN Err(WrongAddress)
               ELSE IF resp.function_code # rq.function_code
                    THEN Err(NonMatchingFunctionCode)
               ELSE Ok(resp)

transaction_validate(rq, raw_, expected_reply_len) ==
    LET r == read_response_parse(raw_, expected_reply_len)
    IN IF ~r.ok THEN r
       ELSE LET resp == Get(r.value)
            IN IF resp.function_code # rq.function_code
               THEN Err(NonMatchingFunctionCode)
               ELSE IF rq.address # TRANSPARENT_ADDRESS /\ resp.address # rq.address
                    THEN Err(WrongAddress)
               ELSE Ok(resp)

(***************************************************************************)
(* lib.rs:201-203  read_serial_number's arithmetic.  Rust binds * tighter  *)
(* than +, and + tighter than ^:                                           *)
(*   (p0 * 256) ^ (3 + p1 * 256) ^ (2 + p2 * 256 + p3)                     *)
(***************************************************************************)
serial_number_value(payload) ==
    Xor32(Xor32(payload[1] * 256, 3 + payload[2] * 256),
          2 + payload[3] * 256 + payload[4])

(***************************************************************************)
(* The value each command makes of a successful transaction (the code      *)
(* after `.await?` in lib.rs:101-247).                                     *)
(***************************************************************************)
command_value(c, response) ==
    CASE c = "read_coefficent" -> data_as_f32(response)
      [] c = "write_coefficent" -> Ok(UnitVal)
      [] c = "read_configuration" -> data_as_u8(response)
      [] c = "write_configuration" -> Ok(UnitVal)
      [] c = "init_and_release" -> Ok(UnitVal)
      [] c = "write_address" -> data_as_u8(response)
      [] c = "read_serial_number" ->
            IF Len(response.payload) < 4 THEN Panic
            ELSE Ok(U32Val(u32_of(serial_number_value(response.payload))))
      [] c = "read_channel_value" -> data_as_f32(response)
      [] c = "zero" -> Ok(UnitVal)
      [] c = "zero_with_value" -> Ok(UnitVal)

\* `transaction(..).await?` followed by the command's own code
command_result(c, t) == IF t.ok THEN command_value(c, Get(t.value)) ELSE t

(***************************************************************************)
(* Codec harness: the pure functions of base.rs applied to buffers drawn   *)
(* from bounded sets.                                                      *)
(***************************************************************************)
\* longest byte sequence d drawn before a CRC is appended
MaxDataLen == 4

\* byte values the drawn sequences are made of: a function code (31) and its
\* error form 31 + 128, each also standing as address and payload byte
CodecBytes == {31, 159}

\* error replies [addr, function > 127, error_code, x, y] for every error code
ErrorReplies == {<<1, f, c, 0, 0>> : f \in {128, 159}, c \in U8}

CodecInputs ==
    UNION {[1..n -> CodecBytes] : n \in 0..MaxDataLen} \cup ErrorReplies

IdleCall ==
    /\ pc = "idle"
    /\ cmd = "none"
    /\ args = <<>>
    /\ req = None
    /\ expected_len = 0
    /\ ops = <<>>
    /\ wire = <<>>
    /\ sent = <<>>
    /\ raw = <<>>
    /\ txn = None
    /\ outcome = None
    /\ assigned = None

CodecIdle ==
    /\ buf = <<>>
    /\ sealed = FALSE
    /\ dec = None
    /\ flip = None

CodecInit ==
    /\ address = 1
    /\ timeout = 100
    /\ IdleCall
    /\ buf \in CodecInputs
    /\ sealed = FALSE
    /\ dec = None
    /\ flip = None

\* the request side of the codec: append crc16_hi_lo(buf) as send_frame does
\* (lib.rs:52-54)
AppendCrc ==
    /\ ~sealed
    /\ dec = None
    /\ LET hl == crc16_hi_lo(buf)
       IN buf' = Append(Append(buf, hl[1]), hl[2])
    /\ sealed' = TRUE
    /\ UNCHANGED <<dec, flip>>
    /\ UNCHANGED <<sessionVars, callVars>>

\* XLineResponseFrame::from_buffer(&buf)
Decode ==
    /\ dec = None
    /\ dec' = Some(from_buffer(buf))
    /\ UNCHANGED <<buf, sealed, flip>>
    /\ UNCHANGED <<sessionVars, callVars>>

\* replace one byte of a frame that decoded successfully, keep the CRC bytes
\* as they are, and decode again
ReplaceByte ==
    /\ flip = None
    /\ IsSome(dec)
    /\ Get(dec).ok
    /\ \E i \in 1..Len(buf), v \in U8 :
          /\ v # buf[i]
          /\ buf' = [buf EXCEPT ![i] = v]
          /\ flip' = Some(<<i, buf[i], v>>)
          /\ dec' = Some(from_buffer(buf'))
    /\ UNCHANGED sealed
    /\ UNCHANGED <<sessionVars, callVars>>

CodecNext == AppendCrc \/ Decode \/ ReplaceByte

CodecSpec == CodecInit /\ [][CodecNext]_vars

(***************************************************************************)
(* The driver session and its commands (lib.rs).  A command call runs in   *)
(* four steps, one per await point of the transaction: the call itself     *)
(* (request built), clear_rx, write_all, read_exact with everything that   *)
(* follows it synchronously.                                               *)
(***************************************************************************)
SessionAddresses == {1, TRANSPARENT_ADDRESS}
SessionTimeouts == {100}
TransportErrors == {"Io", "TimedOut"}
\* Result<(), T::Error> of a transport operation
TransportResults == {Ok(UnitVal)} \cup {Err(e) : e \in TransportErrors}

CoefficientArgs == {PressureOffsetP1, GainFactorP1}
ConfigurationArgs == {DeviceAddress}
ChannelArgs == {P1}
ZeroArgs == {SetZeroP1}
F32Args == {F32_ONE, F32_MINUS_2_5}
U8Args == {255}
NewAddressArgs == {1, 2, TRANSPARENT_ADDRESS}

\* bytes a device may put on the line: the addresses of the devices that
\* answer a unicast request, the values of the first four payload bytes, of
\* the payload bytes after them, and of the error byte of an error reply
ReplyAddresses == {1, 2}
ReplyBytes == {0, 63, 128}
ReplyTailBytes == {255}
ReplyErrorCodes == {1, 2, 3, 4, 5, 32}

Zeros(n) == [i \in 1..n |-> 0]

Min(a, b) == IF a < b THEN a ELSE b

\* payloads of n bytes
ReplyPayloads(n) ==
    {w \o t : w \in [1..Min(n, 4) -> ReplyBytes],
              t \in [1..(n - Min(n, 4)) -> ReplyTailBytes]}

\* a frame as the device sends it: body, then its CRC high byte first
DeviceFrame(body) ==
    LET c == crc16(body)
    IN body \o <<c \div 256, c % 256>>

\* the same with a trailer that is not the CRC of the body
CorruptFrame(body) ==
    LET c == (crc16(body) + 1) % 65536
    IN body \o <<c \div 256, c % 256>>

\* the n-byte buffers read_exact may deliver in answer to rq: normal replies
\* and error replies, with and without a correct CRC, and, for a request to
\* the transparent address, a correct reply from every address 0..255
Replies(rq, n) ==
    LET normal == {<<a, f>> \o p :
                     a \in ReplyAddresses,
                     f \in {rq.function_code, ReadChannelValueInteger},
                     p \in ReplyPayloads(n - 4)}
        errors == {<<a, rq.function_code + 128, c>> \o Zeros(n - 5) :
                     a \in ReplyAddresses, c \in ReplyErrorCodes}
        anyone == IF rq.address = TRANSPARENT_ADDRESS
                  THEN {<<a, rq.function_code>> \o Zeros(n - 4) : a \in U8}
                  ELSE {}
    IN {DeviceFrame(b) : b \in normal \cup errors \cup anyone}
       \cup {CorruptFrame(b) : b \in normal \cup errors}

\* the error replies a device sends in its shortest layout, 5 bytes:
\* address, function code + 128, error code, CRC
ShortErrorReplies(rq) ==
    {DeviceFrame(<<a, rq.function_code + 128, c>>) :
        a \in ReplyAddresses, c \in ReplyErrorCodes}

\* one call of a transport operation: its name, the length of the buffer
\* it is given, its timeout argument and the Result it returns
TransportOp(op, len, t, r) ==
    [timeout |-> t, op |-> op, len |-> len, result |-> r]

Init ==
    /\ address \in SessionAddresses
    /\ timeout \in SessionTimeouts
    /\ IdleCall
    /\ CodecIdle

\* the start of every command: the request frame and the expected reply
\* length are fixed, then transaction() -> send_frame() reaches clear_rx
Call(c, a, frame) ==
    /\ pc = "idle"
    /\ pc' = "clear_rx"
    /\ cmd' = c
    /\ args' = a
    /\ req' = Some(frame)
    /\ expected_len' = response_len(frame.function_code)
    /\ ops' = <<>>
    /\ wire' = <<>>
    /\ sent' = <<>>
    /\ raw' = <<>>
    /\ txn' = None
    /\ outcome' = None
    /\ UNCHANGED <<assigned, sessionVars, codecVars>>

\* the command returns r; t is what transaction() returned
Return(t, r) ==
    /\ pc' = "idle"
    /\ txn' = Some(t)
    /\ outcome' = Some(r)

\* lib.rs:101-114
read_coefficent ==
    \E coefficient \in CoefficientArgs :
        Call("read_coefficent", <<coefficient>>,
             XLineFrame(address, ReadCoefficients, <<coefficient>>))

\* lib.rs:116-131
write_coefficent ==
    \E coefficient \in CoefficientArgs, value \in F32Args :
        LET be == f32_to_be_bytes(value)
            payload == <<coefficient, be[1], be[2], be[3], be[4]>>
        IN Call("write_coefficent", <<coefficient, value>>,
                XLineFrame(address, WriteCoefficients, payload))

\* lib.rs:133-146
read_configuration ==
    \E variable \in ConfigurationArgs :
        Call("read_configuration", <<variable>>,
             XLineFrame(address, ReadConfigurations, <<variable>>))

\* lib.rs:148-161
write_configuration ==
    \E variable \in ConfigurationArgs, value \in U8Args :
        Call("write_configuration", <<variable, value>>,
             XLineFrame(address, WriteConfiguration, <<variable, value>>))

\* lib.rs:163-175
init_and_release ==
    Call("init_and_release", <<>>,
         XLineFrame(address, InitializeAndRealese, <<>>))

\* lib.rs:177-190
write_address ==
    \E new_address \in NewAddressArgs :
        Call("write_address", <<new_address>>,
             XLineFrame(new_address, WriteAndReadNewDeviceAddress, <<>>))

\* lib.rs:192-204
read_serial_number ==
    Call("read_serial_number", <<>>,
         XLineFrame(address, ReadSerialNumber, <<>>))

\* lib.rs:206-219
read_channel_value ==
    \E channel \in ChannelArgs :
        Call("read_channel_value", <<channel>>,
             XLineFrame(address, ReadChannelValueFloat, <<channel>>))

\* lib.rs:221-230
zero ==
    \E channel \in ZeroArgs :
        Call("zero", <<channel>>,
             XLineFrame(address, ZeroCommand, <<channel>>))

\* lib.rs:232-247
zero_with_value ==
    \E channel \in ZeroArgs, value \in F32Args :
        LET be == f32_to_be_bytes(value)
            payload == <<channel, be[1], be[2], be[3], be[4]>>
        IN Call("zero_with_value", <<channel, value>>,
                XLineFrame(address, ZeroCommand, payload))

\* clear_rx().await without the `?`: a failure is dropped and the frame is
\* written all the same
send_frame_clear_rx_unchecked ==
    /\ pc = "clear_rx"
    /\ \E r \in TransportResults :
          ops' = Append(ops, TransportOp("clear_rx", 0, None, r))
    /\ pc' = "write_all"
    /\ UNCHANGED <<txn, outcome>>
    /\ UNCHANGED <<cmd, args, req, expected_len, wire, sent, raw, assigned>>
    /\ UNCHANGED <<sessionVars, codecVars>>

\* lib.rs:35  self.transport.clear_rx().await?
send_frame_clear_rx ==
    /\ pc = "clear_rx"
    /\ \E r \in TransportResults :
          /\ ops' = Append(ops, TransportOp("clear_rx", 0, None, r))
          /\ IF r.ok
             THEN /\ pc' = "write_all"
                  /\ UNCHANGED <<txn, outcome>>
             ELSE Return(Err(ProtocolError_from(Get(r.err))),
                         Err(ProtocolError_from(Get(r.err))))
    /\ UNCHANGED <<cmd, args, req, expected_len, wire, sent, raw, assigned>>
    /\ UNCHANGED <<sessionVars, codecVars>>

\* lib.rs:44-56  build out, self.transport.write_all(&out, self.timeout).await?
send_frame_write_all ==
    /\ pc = "write_all"
    /\ \E r \in TransportResults :
          LET out == send_frame_out(address, Get(req))
          IN /\ wire' = out
             /\ ops' = Append(ops, TransportOp("write_all", Len(out),
                                               Some(timeout), r))
             /\ IF r.ok
                THEN /\ pc' = "read_exact"
                     /\ UNCHANGED <<txn, outcome>>
                ELSE Return(Err(ProtocolError_from(Get(r.err))),
                            Err(ProtocolError_from(Get(r.err))))
    /\ UNCHANGED <<cmd, args, req, expected_len, sent, raw, assigned>>
    /\ UNCHANGED <<sessionVars, codecVars>>

\* lib.rs:66-73  read_exact(&mut raw[..expected_len], self.timeout).await?
\* fails: the error is returned through read_response, transaction and the
\* command
read_response_failed ==
    /\ pc = "read_exact"
    /\ \E e \in TransportErrors :
          /\ ops' = Append(ops, TransportOp("read_exact", expected_len,
                                            Some(timeout), Err(e)))
          /\ Return(Err(ProtocolError_from(e)), Err(ProtocolError_from(e)))
    /\ UNCHANGED <<cmd, args, req, expected_len, wire, sent, raw, assigned>>
    /\ UNCHANGED <<sessionVars, codecVars>>

\* lib.rs:66-73  the device answers with a 5-byte error reply and the command
\* waits for more bytes than that: read_exact, which fills raw[..expected_len]
\* or fails, fails
read_response_short ==
    /\ pc = "read_exact"
    /\ \E b \in ShortErrorReplies(Get(req)), e \in TransportErrors :
          /\ Len(b) < expected_len
          /\ sent' = b
          /\ ops' = Append(ops, TransportOp("read_exact", expected_len,
                                            Some(timeout), Err(e)))
          /\ Return(Err(ProtocolError_from(e)), Err(ProtocolError_from(e)))
    /\ UNCHANGED <<cmd, args, req, expected_len, wire, raw, assigned>>
    /\ UNCHANGED <<sessionVars, codecVars>>

\* the address a successful write_address(a), a other than the session's
\* address, has given the device; r is the command's result
Assigned(r) ==
    IF cmd = "write_address" /\ r.ok /\ args[1] # address
    THEN Some(args[1])
    ELSE assigned

\* a driver that takes the address it has assigned for its own
\* (self.address = address after a successful write_address)
read_response_received_adopting ==
    /\ pc = "read_exact"
    /\ ops' = Append(ops, TransportOp("read_exact", expected_len, Some(timeout),
                                      Ok(UnitVal)))
    /\ \E bytes \in Replies(Get(req), expected_len) :
          /\ sent' = bytes
          /\ raw' = bytes
          /\ LET t == transaction_validate(Get(req), bytes, expected_len)
                 r == command_result(cmd, t)
             IN /\ Return(t, r)
                /\ assigned' = Assigned(r)
                /\ address' = IF cmd = "write_address" /\ r.ok
                              THEN args[1] ELSE address
    /\ UNCHANGED <<cmd, args, req, expected_len, wire>>
    /\ UNCHANGED <<timeout, codecVars>>

\* lib.rs:66-81, 90-98 and the command's tail: read_exact fills
\* raw[..expected_len]; decode, validate, extract the value
read_response_received ==
    /\ pc = "read_exact"
    /\ ops' = Append(ops, TransportOp("read_exact", expected_len, Some(timeout),
                                      Ok(UnitVal)))
    /\ \E bytes \in Replies(Get(req), expected_len) :
          /\ sent' = bytes
          /\ raw' = bytes
          /\ LET t == transaction_validate(Get(req), bytes, expected_len)
                 r == command_result(cmd, t)
             IN /\ Return(t, r)
                /\ assigned' = Assigned(r)
    /\ UNCHANGED <<cmd, args, req, expected_len, wire>>
    /\ UNCHANGED <<sessionVars, codecVars>>

Next ==
    \/ read_coefficent
    \/ write_coefficent
    \/ read_configuration
    \/ write_configuration
    \/ init_and_release
    \/ write_address
    \/ read_serial_number
    \/ read_channel_value
    \/ zero
    \/ zero_with_value
    \/ send_frame_clear_rx
    \/ send_frame_write_all
    \/ read_response_failed
    \/ read_response_short
    \/ read_response_received

Spec == Init /\ [][Next]_vars

(***************************************************************************)
(* Properties of the codec (CodecSpec).                                    *)
(***************************************************************************)
DecodedErr == IF IsSome(dec) /\ ~Get(dec).ok THEN Get(Get(dec).err) ELSE [kind |-> "none"]

C2_Classify(v) ==
    IF v \in {1, 2, 3, 4, 32}
    THEN [name |-> [n \in {1, 2, 3, 4, 32} |->
                      CASE n = 1 -> "NonImplementedFunction"
                        [] n = 2 -> "InvalidAddress"
                        [] n = 3 -> "IncorrectMessageLength"
                        [] n = 4 -> "ErrorSavingValue"
                        [] n = 32 -> "DeviceNotInitialized"][v],
          code |-> v]
    ELSE [name |-> "Other", code |-> v]

\* C2: a buffer of at least 5 bytes whose function byte is above 127 decodes
\* to DeviceError(classify(buffer[2])), with a valid CRC trailer or without;
\* function byte 159 with error byte 3 gives IncorrectMessageLength.
C2_ErrorReplyIsDeviceError ==
    (IsSome(dec) /\ Len(buf) >= 5 /\ buf[2] > 127) =>
        /\ ~Get(dec).ok
        /\ DecodedErr.kind = "DeviceError"
        /\ DecodedErr.device = Some(C2_Classify(buf[3]))
        /\ DecodedErr.crc = None
        /\ (buf[2] = 159 /\ buf[3] = 3) =>
              Get(DecodedErr.device).name = "IncorrectMessageLength"

\* [1, 159, 3, 0, 0] without a valid CRC decoded to IncorrectMessageLength
C2_Witness ==
    /\ IsSome(dec)
    /\ buf = <<1, 159, 3, 0, 0>>
    /\ u16_from_be_bytes(buf[4], buf[5]) # crc16(<<1, 159, 3>>)
    /\ DecodedErr.kind = "DeviceError"
    /\ Get(DecodedErr.device).name = "IncorrectMessageLength"

\* C3 as stated: replacing any byte of a valid frame by any other value makes
\* decoding fail with BadCrc.
C3_AnyReplacedByteIsBadCrc ==
    IsSome(flip) => DecodedErr.kind = "BadCrc"

\* C3 amended: replacing the function byte by a value above 127 makes decoding
\* fail with DeviceError(classify(buffer[2])); every other replacement of one
\* byte makes it fail with BadCrc{expected, got}.
C3_ReplacedByteFailsDecode ==
    IsSome(flip) =>
        LET i == Get(flip)[1]
            v == Get(flip)[3]
            n == Len(buf)
        IN /\ ~Get(dec).ok
           /\ IF i = 2 /\ v > 127
              THEN /\ DecodedErr.kind = "DeviceError"
                   /\ DecodedErr.device = Some(C2_Classify(buf[3]))
              ELSE /\ DecodedErr.kind = "BadCrc"
                   /\ Get(DecodedErr.crc)[1] # Get(DecodedErr.crc)[2]
                   /\ Get(DecodedErr.crc)[2] = buf[n - 1] * 256 + buf[n]

\* a payload byte of a valid 6-byte frame was replaced and decoding gave BadCrc
C3_Witness ==
    /\ IsSome(flip)
    /\ Len(buf) = 6
    /\ Get(flip)[1] = 3
    /\ Get(flip)[2] # Get(flip)[3]
    /\ DecodedErr.kind = "BadCrc"

\* C5: the pair crc16_hi_lo(d) read big-endian equals crc16(d), so d followed
\* by hi, lo never fails the CRC comparison of from_buffer.
C5_CrcRoundTrip ==
    (sealed /\ flip = None) =>
        LET n == Len(buf)
            d == Slice(buf, 0, n - 2)
        IN /\ buf[n - 1] * 256 + buf[n] = crc16(d)
           /\ IsSome(dec) => DecodedErr.kind # "BadCrc"
           /\ (IsSome(dec) /\ n >= 5 /\ buf[2] <= 127) => Get(dec).ok

\* a sequence with its appended CRC decoded to a frame
C5_Witness ==
    /\ sealed
    /\ flip = None
    /\ IsSome(dec)
    /\ Get(dec).ok
    /\ Get(Get(dec).value).crc = crc16(Slice(buf, 0, Len(buf) - 2))
    /\ Len(Get(Get(dec).value).payload) = 2

(***************************************************************************)
(* Properties of the transaction engine and the commands (Spec).           *)
(***************************************************************************)
\* the command has returned
Returned == pc = "idle" /\ IsSome(outcome)

\* read_exact succeeded in the call that has returned
Received == Returned /\ raw # <<>>

\* the request frame of the current call
Request == Get(req)

\* length at least 5, function byte at most 127, trailer = big-endian CRC of
\* the bytes before it
ValidFrame(b) ==
    /\ Len(b) >= 5
    /\ b[2] <= 127
    /\ b[Len(b) - 1] * 256 + b[Len(b)] = crc16(Slice(b, 0, Len(b) - 2))

\* the response frame the bytes b spell out
FrameOf(b) ==
    [address |-> b[1],
     crc |-> b[Len(b) - 1] * 256 + b[Len(b)],
     function_code |-> b[2],
     payload |-> Slice(b, 2, Len(b) - 2)]

C6_OtherFunctionCodeFails ==
    (Received /\ ValidFrame(raw) /\ raw[2] # Request.function_code) =>
        /\ Get(txn) = Err(NonMatchingFunctionCode)
        /\ Get(txn).value = None
        /\ Get(outcome) = Err(NonMatchingFunctionCode)

\* a valid reply from the right address with another function code was refused
C6_Witness ==
    /\ Received
    /\ ValidFrame(raw)
    /\ raw[1] = Request.address
    /\ raw[2] # Request.function_code
    /\ Get(outcome) = Err(NonMatchingFunctionCode)

\* C7: a request to an address other than 250 answered by a valid frame that
\* echoes the function code from another address fails with WrongAddress.
C7_OtherAddressFails ==
    (/\ Received
     /\ ValidFrame(raw)
     /\ raw[2] = Request.function_code
     /\ Request.address # 250
     /\ raw[1] # Request.address) =>
        /\ Get(txn) = Err(WrongAddress)
        /\ Get(outcome) = Err(WrongAddress)

\* device 2 answered a request sent to device 1
C7_Witness ==
    /\ Received
    /\ ValidFrame(raw)
    /\ raw[2] = Request.function_code
    /\ Request.address = 1
    /\ raw[1] = 2
    /\ Get(outcome) = Err(WrongAddress)

\* C8: a request to the transparent address 250 answered by a valid frame
\* that echoes the function code succeeds with that frame, whatever address
\* the reply carries.
C8_TransparentAcceptsAnyAddress ==
    (/\ Received
     /\ ValidFrame(raw)
     /\ raw[2] = Request.function_code
     /\ Request.address = 250) =>
        /\ Get(txn).ok
        /\ Get(txn).value = Some(FrameOf(raw))

\* a reply from address 77, configured nowhere, was accepted
C8_Witness ==
    /\ Received
    /\ Request.address = 250
    /\ ValidFrame(raw)
    /\ raw[1] = 77
    /\ Get(txn).ok
    /\ Get(Get(txn).value).address = 77

\* the f32 whose big-endian bit pattern is b0 b1 b2 b3
FloatOfBytes(b0, b1, b2, b3) ==
    [sign |-> b0 \div 128,
     exponent |-> (b0 % 128) * 2 + b1 \div 128,
     fraction |-> (b1 % 128) * 65536 + b2 * 256 + b3]

\* the 4 bytes, most significant first, of the bit pattern of the f32 v
BytesOfFloat(v) ==
    <<v.sign * 128 + v.exponent \div 2,
      (v.exponent % 2) * 128 + v.fraction \div 65536,
      (v.fraction \div 256) % 256,
      v.fraction % 256>>

\* C9: read_coefficent(PressureOffsetP1) writes [addr, 30, 64, crc_hi, crc_lo],
\* reads 8 bytes, and on a valid reply [addr, 30, b0, b1, b2, b3, crc] returns
\* the float with bit pattern b0 b1 b2 b3 (1.0 for 3F 80 00 00).
C9_ReadPressureOffset ==
    (cmd = "read_coefficent" /\ args = <<64>>) =>
        /\ wire # <<>> =>
              /\ Len(wire) = 5
              /\ Slice(wire, 0, 3) = <<address, 30, 64>>
              /\ wire[4] * 256 + wire[5] = crc16(<<address, 30, 64>>)
              /\ address = 1 => wire = <<1, 30, 64, 80, 40>>
              /\ address = 250 => wire = <<250, 30, 64, 161, 89>>
        /\ \A i \in 1..Len(ops) :
              ops[i].op = "read_exact" => ops[i].len = 8
        /\ (Received /\ ValidFrame(raw) /\ raw[1] = address /\ raw[2] = 30) =>
              /\ Len(raw) = 8
              /\ Get(outcome) =
                    Ok(F32Val(FloatOfBytes(raw[3], raw[4], raw[5], raw[6])))
              /\ Slice(raw, 2, 6) = <<63, 128, 0, 0>> =>
                    Get(outcome) = Ok(F32Val([sign |-> 0, exponent |-> 127,
                                              fraction |-> 0]))

\* the reply [1, 30, 3F, 80, 00, 00, crc] was read and 1.0 returned
C9_Witness ==
    /\ cmd = "read_coefficent"
    /\ args = <<64>>
    /\ wire = <<1, 30, 64, 80, 40>>
    /\ raw = <<1, 30, 63, 128, 0, 0, 52, 164>>
    /\ Returned
    /\ Get(outcome) = Ok(F32Val(F32_ONE))

\* C10: write_coefficent(c, v) writes a frame with function code 31 and
\* payload c followed by the 4 bytes of v's bit pattern, most significant
\* first; [65, 3F, 80, 00, 00] for GainFactorP1 and 1.0.
C10_WriteCoefficientPayload ==
    (cmd = "write_coefficent" /\ wire # <<>>) =>
        /\ wire[2] = 31
        /\ Len(wire) = 9
        /\ Slice(wire, 2, 7) = <<args[1]>> \o BytesOfFloat(args[2])
        /\ (args[1] = 65 /\ args[2] = [sign |-> 0, exponent |-> 127,
                                        fraction |-> 0]) =>
              Slice(wire, 2, 7) = <<65, 63, 128, 0, 0>>

\* write_coefficent(GainFactorP1, 1.0) on session 1 wrote its frame
C10_Witness ==
    /\ cmd = "write_coefficent"
    /\ args = <<GainFactorP1, F32_ONE>>
    /\ wire = <<1, 31, 65, 63, 128, 0, 0, 92, 56>>

(***************************************************************************)
(* Properties of the commands' values and errors (Spec).                   *)
(***************************************************************************)
\* the reply read is validly framed, echoes the request's function code and
\* comes from the requested address (any address for a request to 250)
ValidReply ==
    /\ Received
    /\ ValidFrame(raw)
    /\ raw[2] = Request.function_code
    /\ (Request.address = TRANSPARENT_ADDRESS \/ raw[1] = Request.address)

\* C11: read_channel_value, given a valid 9-byte reply (5 payload bytes) that
\* echoes function code 73 from the right address, returns Ok with the float
\* whose big-endian bit pattern is payload bytes 0 to 3.
C11_ReadChannelValueFloat ==
    (cmd = "read_channel_value" /\ ValidReply) =>
        /\ Len(raw) = 9
        /\ Get(outcome) =
              Ok(F32Val(FloatOfBytes(raw[3], raw[4], raw[5], raw[6])))

\* C12: read_serial_number, given a valid 8-byte reply with payload bytes
\* b0, b1, b2, b3, returns the unsigned 32-bit big-endian reassembly
\* b0<<24 | b1<<16 | b2<<8 | b3, for all byte values b0..b3.
C12_SerialNumberBigEndian ==
    (cmd = "read_serial_number" /\ ValidReply) =>
        /\ Len(raw) = 8
        /\ Get(outcome) =
              Ok(U32Val(U32(raw[3] * 256 + raw[4], raw[5] * 256 + raw[6])))

\* C13: write_address(a) on a session configured with address s transmits a
\* frame whose first byte is a, not s, also when a differs from s; the reply
\* is validated against a (unless a is 250) and the call returns the first
\* payload byte of the reply.
C13_WriteAddressCarriesNewAddress ==
    cmd = "write_address" =>
        /\ wire # <<>> => wire[1] = args[1]
        /\ (Received /\ ValidFrame(raw) /\ raw[2] = Request.function_code) =>
              IF args[1] = TRANSPARENT_ADDRESS \/ raw[1] = args[1]
              THEN Get(outcome) = Ok(U8Val(raw[3]))
              ELSE Get(outcome) = Err(WrongAddress)

\* the type of the value a command returns in Ok (its XLineResult<T, _>)
ResultType(c) ==
    CASE c \in {"read_coefficent", "read_channel_value"} -> "f32"
      [] c \in {"read_configuration", "write_address"} -> "u8"
      [] c = "read_serial_number" -> "u32"
      [] OTHER -> "unit"

ProtocolErrorKinds ==
    {"Transport", "FrameError", "WrongAddress", "NonMatchingFunctionCode"}

\* C14: every command call, for every outcome of the three transport
\* operations and every content of the N bytes delivered, ends in exactly one
\* of two outcomes: Ok with the command's typed value, or Err with exactly one
\* ProtocolError; no call panics and no partial result is returned.
C14_OkOrOneError ==
    Returned =>
        LET r == Get(outcome)
        IN /\ ~IsPanic(r)
           /\ \/ /\ r.ok
                 /\ r.err = None
                 /\ IsSome(r.value)
                 /\ Get(r.value)[1] = ResultType(cmd)
              \/ /\ ~r.ok
                 /\ r.value = None
                 /\ IsSome(r.err)
                 /\ Get(r.err).kind \in ProtocolErrorKinds

\* the order of the transport operations of one transaction
TransactionOrder == <<"clear_rx", "write_all", "read_exact">>

\* transaction() returned something other than a transport error: a frame or
\* an error of the validation (decode, function-code echo, address match)
Validated ==
    /\ Returned
    /\ (Get(txn).ok \/ Get(Get(txn).err).kind # "Transport")

\* C15: in every transaction the transport operations occur in the order
\* clear_rx, write_all, read_exact, each at most once (no retry); if clear_rx
\* fails no byte is written and nothing is read, if write_all fails nothing
\* is read, and validation happens only after read_exact has succeeded.
C15_TransportOrderNoRetry ==
    /\ Len(ops) <= 3
    /\ \A i \in 1..Len(ops) :
          /\ ops[i].op = TransactionOrder[i]
          /\ ~ops[i].result.ok => (i = Len(ops) /\ Returned)
    /\ pc = "clear_rx" => ops = <<>>
    /\ pc = "write_all" => Len(ops) = 1
    /\ pc = "read_exact" => Len(ops) = 2
    /\ (Returned /\ ~ops[1].result.ok) => (wire = <<>> /\ raw = <<>>)
    /\ (Returned /\ Len(ops) = 2) => (~ops[2].result.ok /\ raw = <<>>)
    /\ Validated => (Len(ops) = 3 /\ ops[3].result.ok /\ Len(raw) = expected_len)
    /\ (Returned /\ ~Validated) => ~ops[Len(ops)].result.ok

\* a transaction ran its three operations once each, in order, and the reply
\* was then refused by the address check
C15_Witness ==
    /\ Returned
    /\ [i \in 1..Len(ops) |-> ops[i].op] = TransactionOrder
    /\ \A i \in 1..Len(ops) : ops[i].result.ok
    /\ Get(txn) = Err(WrongAddress)

\* C16: when clear_rx, write_all or read_exact fails with transport error e,
\* the command returns ProtocolError::Transport(e) carrying that same e, at
\* whichever of the three steps the failure happens, and never another error
\* category for it.
C16_TransportErrorKept ==
    \A i \in 1..Len(ops) :
        ~ops[i].result.ok =>
            /\ Returned
            /\ Get(txn) = Err(Transport(Get(ops[i].result.err)))
            /\ Get(outcome) = Err(Transport(Get(ops[i].result.err)))
            /\ Get(Get(outcome).err).kind = "Transport"

\* read_exact timed out after clear_rx and write_all succeeded, and the
\* command returned Transport(TimedOut)
C16_Witness ==
    /\ Returned
    /\ Len(ops) = 3
    /\ ops[1].result.ok
    /\ ops[2].result.ok
    /\ ops[3].op = "read_exact"
    /\ ops[3].result = Err("TimedOut")
    /\ Get(outcome) = Err(Transport("TimedOut"))

\* the device put an error reply on the line: function code above 127, the
\* error code at index 2
ErrorReplySent == Returned /\ sent # <<>> /\ sent[2] > 127

\* C17: when the addressed device answers a request with an error reply, the
\* command fails with FrameError(DeviceError(code)) for every command,
\* whatever the command's reply length N is, also when N (8, 9 or 10) is
\* greater than the length of the error reply the device sends.
C17_ErrorReplyReported ==
    (/\ ErrorReplySent
     /\ (Request.address = TRANSPARENT_ADDRESS \/ sent[1] = Request.address)) =>
        Get(outcome) = Err(FrameError(DeviceError(KellerErrors_from(sent[3]))))

\* the reply length of each function code the commands issue
ReplyLengthTable ==
    (30 :> 8) @@ (31 :> 5) @@ (32 :> 8) @@ (33 :> 5) @@ (48 :> 10) @@
    (66 :> 5) @@ (67 :> 8) @@ (73 :> 9) @@ (95 :> 5)

\* C18: each command asks the transport for exactly N bytes, where N depends
\* only on the function code it issues and never on received bytes: 30->8,
\* 31->5, 32->8, 33->5, 48->10, 66->5, 67->8, 73->9, 95->5; the buffer handed
\* to from_buffer has exactly that length N.
C18_ReplyLengthByFunctionCode ==
    IsSome(req) =>
        /\ Request.function_code \in DOMAIN ReplyLengthTable
        /\ expected_len = ReplyLengthTable[Request.function_code]
        /\ \A i \in 1..Len(ops) :
              ops[i].op = "read_exact" =>
                  ops[i].len = ReplyLengthTable[Request.function_code]
        /\ Received =>
              /\ Len(raw) = ReplyLengthTable[Request.function_code]
              /\ Get(txn).ok =>
                    Len(Get(Get(txn).value).payload) =
                        ReplyLengthTable[Request.function_code] - 4

\* read_channel_value asked for 9 bytes and decoded the 9 it was given
C18_Witness ==
    /\ Received
    /\ Request.function_code = 73
    /\ ops[3].op = "read_exact"
    /\ ops[3].len = 9
    /\ Len(raw) = 9
    /\ Get(txn).ok
    /\ Len(Get(Get(txn).value).payload) = 5

\* C19: validation order in a transaction is frame decode (TooShort, then
\* DeviceError, then BadCrc), then function-code echo, then address match: a
\* reply that fails decoding is reported as that FrameError even when its
\* function code or address also mismatch, and a validly framed reply with
\* both a wrong function code and a wrong address fails with
\* NonMatchingFunctionCode, never WrongAddress.
C19_ValidationOrder ==
    Received =>
        LET d == from_buffer(raw)
            crc_ok == raw[Len(raw) - 1] * 256 + raw[Len(raw)] =
                          crc16(Slice(raw, 0, Len(raw) - 2))
        IN /\ Len(raw) < 5 => d = Err(TooShort)
           /\ (Len(raw) >= 5 /\ raw[2] > 127) =>
                 d = Err(DeviceError(KellerErrors_from(raw[3])))
           /\ (Len(raw) >= 5 /\ raw[2] <= 127 /\ ~crc_ok) =>
                 (~d.ok /\ Get(d.err).kind = "BadCrc")
           /\ ~d.ok =>
                 /\ Get(txn) = Err(FrameError(Get(d.err)))
                 /\ Get(outcome) = Err(FrameError(Get(d.err)))
           /\ (d.ok /\ raw[2] # Request.function_code) =>
                 /\ Get(txn) = Err(NonMatchingFunctionCode)
                 /\ Get(outcome) = Err(NonMatchingFunctionCode)
           /\ (/\ d.ok
               /\ raw[2] = Request.function_code
               /\ Request.address # TRANSPARENT_ADDRESS
               /\ raw[1] # Request.address) =>
                 /\ Get(txn) = Err(WrongAddress)
                 /\ Get(outcome) = Err(WrongAddress)

\* a validly framed reply with another function code, from another address
\* than the one asked, was refused for its function code
C19_Witness ==
    /\ Received
    /\ ValidFrame(raw)
    /\ Request.address = 1
    /\ raw[1] = 2
    /\ raw[2] # Request.function_code
    /\ Get(outcome) = Err(NonMatchingFunctionCode)

\* C20: after any sequence of commands with any transport behaviour, the
\* error returned by a command is one of Transport, FrameError(TooShort),
\* FrameError(DeviceError), FrameError(BadCrc), NonMatchingFunctionCode or
\* WrongAddress; EchoMismatch and Timeout are never produced.
C20_ErrorCategories ==
    (Returned /\ IsSome(Get(outcome).err)) =>
        LET e == Get(Get(outcome).err)
        IN /\ e.kind \notin {"EchoMismatch", "Timeout"}
           /\ \/ e.kind = "Transport" /\ IsSome(e.transport) /\ e.frame = None
              \/ /\ e.kind = "FrameError"
                 /\ e.transport = None
                 /\ IsSome(e.frame)
                 /\ Get(e.frame).kind \in {"TooShort", "DeviceError", "BadCrc"}
              \/ e = NonMatchingFunctionCode
              \/ e = WrongAddress

\* a command returned FrameError(BadCrc) for a reply with a wrong trailer
C20_Witness ==
    /\ Returned
    /\ IsSome(Get(outcome).err)
    /\ Get(Get(outcome).err).kind = "FrameError"
    /\ Get(Get(Get(outcome).err).frame).kind = "BadCrc"

\* C21: no command changes the session's configured address or timeout,
\* whether it succeeds or fails: after any sequence of commands, including a
\* successful write_address(a) with a different from the configured address,
\* the next command still puts the address given to new() in its request
\* frame, hands the timeout given to new() to the transport, and validates the
\* reply address against the address given to new().
C21_SessionUnchanged ==
    /\ [][address' = address /\ timeout' = timeout]_vars
    /\ [](\A i \in 1..Len(ops) :
              ops[i].op # "clear_rx" => ops[i].timeout = Some(timeout))
    /\ []((IsSome(req) /\ cmd # "write_address") =>
              /\ Request.address = address
              /\ IsSome(assigned) => Request.address # Get(assigned)
              /\ (/\ Received
                  /\ ValidFrame(raw)
                  /\ raw[2] = Request.function_code
                  /\ address # TRANSPARENT_ADDRESS) =>
                    (Get(txn).ok <=> raw[1] = address))

\* after write_address(2) succeeded on the session created with address 1,
\* read_coefficent asked address 1 and accepted the reply from address 1
C21_Witness ==
    /\ address = 1
    /\ assigned = Some(2)
    /\ cmd = "read_coefficent"
    /\ Received
    /\ Request.address = 1
    /\ raw[1] = 1
    /\ Get(txn).ok

====
